---- MODULE Spec2Model ----
(***************************************************************************)
(* A model of pyron (src/src/lib.rs): the three entry points to_string,    *)
(* load and loads, the encoder `extract` (Python object -> ron::Value) and *)
(* the decoder `try_val_to_py` (ron_parser::Value -> Python object).       *)
(*                                                                         *)
(* Python objects are tagged tuples:                                       *)
(*   <<"str", s>>  <<"bool", b>>  <<"int", i>>  <<"float", f>>  <<"None">> *)
(*   <<"list", elems>>     <<"dict", entries>>  (entries: <<key, value>>)  *)
(*   <<"tuple", cls, elems>>    cls = <<name, bases, _fields>>             *)
(*   <<"dataclass", name, fields>>   (fields: <<field name, value>>)       *)
(*   <<"other", type name>>     (an object of no recognised kind)          *)
(* A float is written by the integer it equals (<<"float", 1>> is 1.0):    *)
(* the code never looks at a float's value, only at its kind.              *)
(*                                                                         *)
(* Values are tagged tuples as well:                                       *)
(*   <<"String", s>> <<"Char", c>> <<"Bool", b>> <<"Unit">>                *)
(*   <<"Number", <<"Integer", i>>>>   <<"Number", <<"Float", f>>>>         *)
(*   <<"Option", <<>>>>  <<"Option", <<v>>>>    <<"Include", path>>        *)
(*   <<"Seq", elems>>   <<"Map", entries>>   <<"Struct", name, fields>>    *)
(*   <<"Tuple", name, elems>> (ron_parser)   <<"Tuple", elems>> (ron)      *)
(* An optional name is <<>> (None) or <<n>> (Some(n)).                     *)
(*                                                                         *)
(* A result is <<"Ok", x>> or <<"Err", kind, detail>>.                     *)
(***************************************************************************)
EXTENDS Integers, Sequences, FiniteSets

VARIABLES pc, call, result, emitted, origin

vars == <<pc, call, result, emitted, origin>>

----------------------------------------------------------------------------
(* Bounds of the model.                                                    *)

\* Longest container (list, tuple, mapping, record) the inputs contain.
MaxLen == 2

\* The largest i64, scaled down: extract::<i64>() fails above it.
I64Max == 1

\* How far above I64Max an integer still converts to an f64 (scaled down).
F64Span == 1

I64Min == -I64Max - 1

F64Max == I64Max + F64Span

----------------------------------------------------------------------------
(* Results.                                                                *)

Ok(x) == <<"Ok", x>>

Err(kind, detail) == <<"Err", kind, detail>>

IsOk(r) == r[1] = "Ok"

IsErr(r) == r[1] = "Err"

\* The four PyValueError messages the source builds, and the host's errors.
ConflictingPolicy == Err("ConflictingPolicy", "")

ParseError == Err("ParseError", "")

UnsupportedType(name) == Err("UnsupportedType", name)

UnresolvedInclude(path) == Err("UnresolvedInclude", path)

\* TypeError: unhashable type, raised by PyDict::set_item.
UnhashableKey(name) == Err("UnhashableKey", name)

\* ValueError raised by collections.namedtuple for a name it rejects.
InvalidFieldName(name) == Err("InvalidFieldName", name)

IoError == Err("IoError", "")

----------------------------------------------------------------------------
(* The host object system, as far as the source consults it.               *)

None == <<"None">>

PyStr(s) == <<"str", s>>

PyBool(b) == <<"bool", b>>

PyInt(i) == <<"int", i>>

PyFloat(f) == <<"float", f>>

PyList(elems) == <<"list", elems>>

PyDict(entries) == <<"dict", entries>>

\* The class of a plain tuple: tuple.__bases__ is (object,), no _fields.
TupleClass == <<"tuple", <<"object">>, <<>>>>

\* The class collections.namedtuple(name, fields) returns.
NamedTupleClass(name, fields) == <<name, <<"tuple">>, <<"tuple", fields>>>>

PyTuple(elems) == <<"tuple", TupleClass, elems>>

Kind(o) == o[1]

\* value.get_type().name()
TypeName(o) ==
    CASE Kind(o) = "tuple" -> o[2][1]
      [] Kind(o) = "dataclass" -> o[2]
      [] Kind(o) = "other" -> o[2]
      [] Kind(o) = "None" -> "NoneType"
      [] OTHER -> Kind(o)

\* value.extract::<i64>(): an int (through __index__) that fits 64 bits.
\* The bool probe runs before it, a float has no __index__.
FitsI64(o) == Kind(o) = "int" /\ o[2] >= I64Min /\ o[2] <= I64Max

\* value.extract::<f64>() is PyFloat_AsDouble: a float, or anything with
\* __float__, which an int has; it raises OverflowError for an int too large.
FitsF64(o) ==
    \/ Kind(o) = "float"
    \/ Kind(o) = "int" /\ o[2] >= -F64Max /\ o[2] <= F64Max

----------------------------------------------------------------------------
(* The encoder: extract and its helpers (ron::Value).                      *)

\* ron::Map::insert: a key that is already there (structural Value
\* equality) has its value replaced, a new key is added.
MapInsert(entries, k, v) ==
    IF \E i \in 1..Len(entries) : entries[i][1] = k
    THEN [i \in 1..Len(entries) |->
            IF entries[i][1] = k THEN <<k, v>> ELSE entries[i]]
    ELSE Append(entries, <<k, v>>)

\* ron::value::Struct::insert, keyed by the field name.
StructInsert(fields, name, v) == MapInsert(fields, name, v)

\* is_namedtuple: __bases__ is a tuple of length one and _fields is a tuple.
\* The parent itself is not looked at (the TODO of line 139).
is_namedtuple(o) ==
    LET bases == o[2][2]
        fields == o[2][3]
    IN  /\ Len(bases) = 1
        /\ fields # <<>>
        /\ fields[1] = "tuple"

\* value._asdict(): the declared field names paired with the elements.
AsDict(o) ==
    LET names == o[2][3][2]
    IN  [i \in 1..Len(names) |-> <<names[i], o[3][i]>>]

RECURSIVE extract(_)
RECURSIVE ExtractEntries(_, _)
RECURSIVE ExtractElems(_, _)
RECURSIVE ExtractFields(_, _)

\* for (key, value) in dict { map.insert(extract(key)?, extract(value)?) }
ExtractEntries(entries, map) ==
    IF entries = <<>> THEN Ok(map)
    ELSE LET k == extract(Head(entries)[1])
         IN  IF IsErr(k) THEN k
             ELSE LET v == extract(Head(entries)[2])
                  IN  IF IsErr(v) THEN v
                      ELSE ExtractEntries(Tail(entries),
                                          MapInsert(map, k[2], v[2]))

\* for value in elems { seq.push(extract(value)?) }
ExtractElems(elems, seq) ==
    IF elems = <<>> THEN Ok(seq)
    ELSE LET v == extract(Head(elems))
         IN  IF IsErr(v) THEN v
             ELSE ExtractElems(Tail(elems), Append(seq, v[2]))

\* for (name, value) in fields { s.insert(name, extract(value)?) }
ExtractFields(fields, s) ==
    IF fields = <<>> THEN Ok(s)
    ELSE LET v == extract(Head(fields)[2])
         IN  IF IsErr(v) THEN v
             ELSE ExtractFields(Tail(fields),
                                StructInsert(s, Head(fields)[1], v[2]))

extract_namedtuple(o) ==
    LET s == ExtractFields(AsDict(o), <<>>)
    IN  IF IsErr(s) THEN s ELSE Ok(<<"Struct", <<o[2][1]>>, s[2]>>)

extract_dataclass(o) ==
    LET s == ExtractFields(o[3], <<>>)
    IN  IF IsErr(s) THEN s ELSE Ok(<<"Struct", <<o[2]>>, s[2]>>)

\* Unsupported with the slip of encoding an unknown object as None.
UnsupportedAsNone(o) == Ok(<<"Option", <<>>>>)

\* The last arm of extract: Err("Unsupported type: {type name}").
Unsupported(o) == UnsupportedType(TypeName(o))

extract(o) ==
    IF Kind(o) = "dict" THEN
        LET m == ExtractEntries(o[2], <<>>)
        IN  IF IsErr(m) THEN m ELSE Ok(<<"Map", m[2]>>)
    ELSE IF Kind(o) = "tuple" THEN
        IF is_namedtuple(o) THEN extract_namedtuple(o)
        ELSE LET t == ExtractElems(o[3], <<>>)
             IN  IF IsErr(t) THEN t ELSE Ok(<<"Tuple", t[2]>>)
    ELSE IF Kind(o) = "list" THEN
        LET l == ExtractElems(o[2], <<>>)
        IN  IF IsErr(l) THEN l ELSE Ok(<<"Seq", l[2]>>)
    ELSE IF Kind(o) = "str" THEN Ok(<<"String", o[2]>>)
    ELSE IF Kind(o) = "bool" THEN Ok(<<"Bool", o[2]>>)
    ELSE IF FitsI64(o) THEN Ok(<<"Number", <<"Integer", o[2]>>>>)
    ELSE IF FitsF64(o) THEN Ok(<<"Number", <<"Float", o[2]>>>>)
    ELSE IF Kind(o) = "None" THEN Ok(<<"Option", <<>>>>)
    ELSE IF Kind(o) = "dataclass" THEN extract_dataclass(o)
    ELSE Unsupported(o)

----------------------------------------------------------------------------
(* Text.  The printer (ron, PrettyConfig with struct_names and             *)
(* decimal_floats) and the parser (ron_parser) are external crates; a      *)
(* document is modelled by the tree the parser returns for it and by       *)
(* whether the parser reported errors: <<"doc", errors, value>>.           *)

RECURSIVE Reparse(_)

\* The ron_parser::Value that parsing the printed form of a ron::Value
\* gives: the same tree, a ron tuple (which has no name) read as an unnamed
\* Tuple.
Reparse(v) ==
    CASE v[1] = "Tuple" ->
           <<"Tuple", <<>>, [i \in 1..Len(v[2]) |-> Reparse(v[2][i])]>>
      [] v[1] = "Seq" ->
           <<"Seq", [i \in 1..Len(v[2]) |-> Reparse(v[2][i])]>>
      [] v[1] = "Map" ->
           <<"Map", [i \in 1..Len(v[2]) |->
                       <<Reparse(v[2][i][1]), Reparse(v[2][i][2])>>]>>
      [] v[1] = "Struct" ->
           <<"Struct", v[2], [i \in 1..Len(v[3]) |->
                                <<v[3][i][1], Reparse(v[3][i][2])>>]>>
      [] OTHER -> v

\* value.to_string_pretty(..)
to_string_pretty(v) == <<"doc", FALSE, Reparse(v)>>

\* pub fn to_string
to_string(o) ==
    LET v == extract(o)
    IN  IF IsErr(v) THEN v ELSE Ok(to_string_pretty(v[2]))

----------------------------------------------------------------------------
(* The host's dict and collections.namedtuple, as the decoder uses them.   *)

RECURSIVE PyHashable(_)

\* hash(o) succeeds: a list or a dict has no hash, a tuple has one when all
\* its elements have.
PyHashable(o) ==
    CASE Kind(o) \in {"list", "dict"} -> FALSE
      [] Kind(o) = "tuple" -> \A i \in 1..Len(o[3]) : PyHashable(o[3][i])
      [] OTHER -> TRUE

IsNumeric(o) == Kind(o) \in {"bool", "int", "float"}

\* The number a bool, int or float stands for (True is 1, False is 0).
NumericValue(o) == IF Kind(o) = "bool" THEN (IF o[2] THEN 1 ELSE 0) ELSE o[2]

RECURSIVE PyEq(_, _)

\* Python's == on hashable objects, which a dict compares its keys with:
\* numbers compare by value across bool, int and float, tuples (a named
\* tuple is a tuple) element by element.
PyEq(a, b) ==
    IF IsNumeric(a) /\ IsNumeric(b) THEN NumericValue(a) = NumericValue(b)
    ELSE IF Kind(a) = "tuple" /\ Kind(b) = "tuple" THEN
        /\ Len(a[3]) = Len(b[3])
        /\ \A i \in 1..Len(a[3]) : PyEq(a[3][i], b[3][i])
    ELSE a = b

\* PyDict::set_item on the entries of a dict: TypeError for an unhashable
\* key; a key equal to one already there keeps the old key object and
\* replaces its value; a new key is appended.
set_item(entries, k, v) ==
    IF ~PyHashable(k) THEN UnhashableKey(TypeName(k))
    ELSE IF \E i \in 1..Len(entries) : PyEq(entries[i][1], k)
    THEN Ok([i \in 1..Len(entries) |->
               IF PyEq(entries[i][1], k) THEN <<entries[i][1], v>>
               ELSE entries[i]])
    ELSE Ok(Append(entries, <<k, v>>))

Letters ==
    {"a", "b", "c", "d", "e", "f", "g", "h", "i", "j", "k", "l", "m", "n",
     "o", "p", "q", "r", "s", "t", "u", "v", "w", "x", "y", "z", "A", "B",
     "C", "D", "E", "F", "G", "H", "I", "J", "K", "L", "M", "N", "O", "P",
     "Q", "R", "S", "T", "U", "V", "W", "X", "Y", "Z"}

Digits == <<"0", "1", "2", "3", "4", "5", "6", "7", "8", "9">>

DigitSet == {Digits[i] : i \in 1..Len(Digits)}

\* str.isidentifier, on ASCII names.
IsIdentifier(s) ==
    /\ Len(s) > 0
    /\ SubSeq(s, 1, 1) \in Letters \cup {"_"}
    /\ \A i \in 2..Len(s) : SubSeq(s, i, i) \in Letters \cup DigitSet \cup {"_"}

\* keyword.iskeyword
PyKeywords ==
    {"False", "None", "True", "and", "as", "assert", "async", "await",
     "break", "class", "continue", "def", "del", "elif", "else", "except",
     "finally", "for", "from", "global", "if", "import", "in", "is",
     "lambda", "nonlocal", "not", "or", "pass", "raise", "return", "try",
     "while", "with", "yield"}

StartsWithUnderscore(s) == Len(s) > 0 /\ SubSeq(s, 1, 1) = "_"

\* collections.namedtuple(typename, field_names) with rename left False:
\* every name is an identifier and no keyword, and no field name starts
\* with an underscore or comes twice; otherwise ValueError.
namedtuple(typename, field_names) ==
    LET names == <<typename>> \o field_names
        badName(n) == ~IsIdentifier(n) \/ n \in PyKeywords
        badField(i) ==
            \/ StartsWithUnderscore(field_names[i])
            \/ \E j \in 1..(i - 1) : field_names[j] = field_names[i]
    IN  IF \E i \in 1..Len(names) : badName(names[i])
        THEN InvalidFieldName(
               names[CHOOSE i \in 1..Len(names) :
                        /\ badName(names[i])
                        /\ \A j \in 1..(i - 1) : ~badName(names[j])])
        ELSE IF \E i \in 1..Len(field_names) : badField(i)
        THEN InvalidFieldName(
               field_names[CHOOSE i \in 1..Len(field_names) :
                              /\ badField(i)
                              /\ \A j \in 1..(i - 1) : ~badField(j)])
        ELSE Ok(NamedTupleClass(typename, field_names))

\* cls(**kwargs) for a named tuple class whose fields are the keys of
\* kwargs: the instance holds the values in field order.
CallWithKwargs(cls, kwargs) ==
    <<"tuple", cls, [i \in 1..Len(kwargs) |-> kwargs[i][2]]>>

RECURSIVE Decimal(_)

\* An unsigned number in decimal, as {} formats it.
Decimal(n) ==
    IF n < 10 THEN Digits[n + 1]
    ELSE Decimal(n \div 10) \o Digits[(n % 10) + 1]

\* format!("_{}", i)
PositionName(i) == "_" \o Decimal(i)

\* SentinelKey with the leading "!" lost.
SentinelKeyPlain == "__name__"

\* The key dict.set_item("!__name__", name) stores the name under.
SentinelKey == "!__name__"

----------------------------------------------------------------------------
(* The decoder: try_val_to_py (ron_parser::Value).                         *)

RECURSIVE try_val_to_py(_, _, _)
RECURSIVE DecodeFields(_, _, _, _)
RECURSIVE DecodeElems(_, _, _, _)
RECURSIVE DecodePositions(_, _, _, _, _)
RECURSIVE DecodeEntries(_, _, _, _)

\* for (key, value) in s.iter() { dict.set_item(key, try_val_to_py(value)?)? }
DecodeFields(fields, dict, ps, pcn) ==
    IF fields = <<>> THEN Ok(dict)
    ELSE LET v == try_val_to_py(Head(fields)[2], ps, pcn)
         IN  IF IsErr(v) THEN v
             ELSE LET d == set_item(dict, PyStr(Head(fields)[1]), v[2])
                  IN  IF IsErr(d) THEN d
                      ELSE DecodeFields(Tail(fields), d[2], ps, pcn)

\* for value in t.iter() { elements.push(try_val_to_py(value)?) }
DecodeElems(elems, out, ps, pcn) ==
    IF elems = <<>> THEN Ok(out)
    ELSE LET v == try_val_to_py(Head(elems), ps, pcn)
         IN  IF IsErr(v) THEN v
             ELSE DecodeElems(Tail(elems), Append(out, v[2]), ps, pcn)

\* for (i, value) in t.iter().enumerate()
\*     { dict.set_item(format!("_{}", i), try_val_to_py(value)?)? }
DecodePositions(elems, i, dict, ps, pcn) ==
    IF i >= Len(elems) THEN Ok(dict)
    ELSE LET v == try_val_to_py(elems[i + 1], ps, pcn)
         IN  IF IsErr(v) THEN v
             ELSE LET d == set_item(dict, PyStr(PositionName(i)), v[2])
                  IN  IF IsErr(d) THEN d
                      ELSE DecodePositions(elems, i + 1, d[2], ps, pcn)

\* for (key, value) in m.iter()
\*     { dict.set_item(try_val_to_py(key)?, try_val_to_py(value)?)? }
DecodeEntries(entries, dict, ps, pcn) ==
    IF entries = <<>> THEN Ok(dict)
    ELSE LET k == try_val_to_py(Head(entries)[1], ps, pcn)
         IN  IF IsErr(k) THEN k
             ELSE LET v == try_val_to_py(Head(entries)[2], ps, pcn)
                  IN  IF IsErr(v) THEN v
                      ELSE LET d == set_item(dict, k[2], v[2])
                           IN  IF IsErr(d) THEN d
                               ELSE DecodeEntries(Tail(entries), d[2], ps, pcn)

\* DecodeInclude with the slip of skipping the directive.
DecodeIncludeSkipped(path) == Ok(None)

\* The Value::Include arm.
DecodeInclude(path) == UnresolvedInclude(path)

\* NamePolicy with the guard of the second arm forgotten.
NamePolicyUnguarded(name, ps, pcn) ==
    IF name # <<>> /\ ps THEN "record"
    ELSE IF name # <<>> THEN "sentinel"
    ELSE "discard"

\* The match on the name of a Struct or Tuple: `Some(name) if
\* preserve_structs`, then `Some(name) if preserve_class_names`, then `_`.
NamePolicy(name, ps, pcn) ==
    IF name # <<>> /\ ps THEN "record"
    ELSE IF name # <<>> /\ pcn THEN "sentinel"
    ELSE "discard"

\* dict.keys()
Keys(entries) == [i \in 1..Len(entries) |-> entries[i][1][2]]

\* The Value::Struct arm.
DecodeStruct(v, ps, pcn) ==
    LET dict == DecodeFields(v[3], <<>>, ps, pcn)
    IN  IF IsErr(dict) THEN dict
        ELSE IF NamePolicy(v[2], ps, pcn) = "record" THEN
            LET cls == namedtuple(v[2][1], Keys(dict[2]))
            IN  IF IsErr(cls) THEN cls
                ELSE Ok(CallWithKwargs(cls[2], dict[2]))
        ELSE IF NamePolicy(v[2], ps, pcn) = "sentinel" THEN
            LET d == set_item(dict[2], PyStr(SentinelKey), PyStr(v[2][1]))
            IN  IF IsErr(d) THEN d ELSE Ok(PyDict(d[2]))
        ELSE Ok(PyDict(dict[2]))

\* The Value::Tuple arm.
DecodeTuple(v, ps, pcn) ==
    LET elements == DecodeElems(v[3], <<>>, ps, pcn)
    IN  IF IsErr(elements) THEN elements
        ELSE IF NamePolicy(v[2], ps, pcn) = "record" THEN
            LET cls == namedtuple(v[2][1],
                                  [i \in 1..Len(v[3]) |-> PositionName(i - 1)])
            IN  IF IsErr(cls) THEN cls
                ELSE LET dict == DecodePositions(v[3], 0, <<>>, ps, pcn)
                     IN  IF IsErr(dict) THEN dict
                         ELSE Ok(CallWithKwargs(cls[2], dict[2]))
        ELSE IF NamePolicy(v[2], ps, pcn) = "sentinel" THEN
            LET dict == DecodePositions(v[3], 0, <<>>, ps, pcn)
            IN  IF IsErr(dict) THEN dict
                ELSE LET d == set_item(dict[2], PyStr(SentinelKey),
                                       PyStr(v[2][1]))
                     IN  IF IsErr(d) THEN d ELSE Ok(PyDict(d[2]))
        ELSE Ok(PyTuple(elements[2]))

try_val_to_py(v, ps, pcn) ==
    CASE v[1] = "String" -> Ok(PyStr(v[2]))
      [] v[1] = "Number" ->
           IF v[2][1] = "Float" THEN Ok(PyFloat(v[2][2]))
           ELSE Ok(PyInt(v[2][2]))
      [] v[1] = "Bool" -> Ok(PyBool(v[2]))
      [] v[1] = "Struct" -> DecodeStruct(v, ps, pcn)
      [] v[1] = "Tuple" -> DecodeTuple(v, ps, pcn)
      [] v[1] = "Seq" ->
           LET list == DecodeElems(v[2], <<>>, ps, pcn)
           IN  IF IsErr(list) THEN list ELSE Ok(PyList(list[2]))
      [] v[1] = "Map" ->
           LET dict == DecodeEntries(v[2], <<>>, ps, pcn)
           IN  IF IsErr(dict) THEN dict ELSE Ok(PyDict(dict[2]))
      [] v[1] = "Char" -> Ok(PyStr(v[2]))
      [] v[1] = "Option" ->
           IF v[2] # <<>> THEN try_val_to_py(v[2][1], ps, pcn) ELSE Ok(None)
      [] v[1] = "Unit" -> Ok(None)
      [] v[1] = "Include" -> DecodeInclude(v[2])

----------------------------------------------------------------------------
(* The entry points load and loads.  A file is <<"missing">> or            *)
(* <<"file", doc>>.  Each returns <<result, whether errors were emitted>>. *)

\* pub fn load
load(file, preserve_structs, preserve_class_names, print_errors) ==
    IF file[1] = "missing" THEN <<IoError, FALSE>>
    ELSE LET parse == file[2]
         IN  IF preserve_structs /\ preserve_class_names
             THEN <<ConflictingPolicy, FALSE>>
             ELSE IF parse[2] THEN <<ParseError, print_errors>>
             ELSE <<try_val_to_py(parse[3], preserve_structs,
                                  preserve_class_names), FALSE>>

\* pub fn loads
loads(s, preserve_structs, preserve_class_names, print_errors) ==
    IF s[2] THEN <<ParseError, print_errors>>
    ELSE <<try_val_to_py(s[3], preserve_structs, preserve_class_names), FALSE>>

----------------------------------------------------------------------------
(* The inputs the entry points are called with.                            *)

SeqsOver(S, n) == UNION {[1..k -> S] : k \in 0..n}

\* The sequences of pairs <<names[i], a value of S>>.
Labelled(names, S) ==
    {[i \in 1..Len(names) |-> <<names[i], vs[i]>>] : vs \in [1..Len(names) -> S]}

\* Sequences of pairwise different names.
DistinctSeqs(S, n) ==
    {ns \in SeqsOver(S, n) : \A i, j \in 1..Len(ns) : i # j => ns[i] # ns[j]}

ClassName == "P"

IncludePath == "other.ron"

\* Field names a document or a dataclass can declare.
FieldNames == {"a", "b", "_x"}

\* Optional names: None and Some(ClassName).
Names == {<<>>, <<ClassName>>}

VInt == <<"Number", <<"Integer", 1>>>>

VFloat == <<"Number", <<"Float", 1>>>>

VStr == <<"String", "a">>

VInclude == <<"Include", IncludePath>>

VLeaves ==
    {VStr, <<"String", "b">>, <<"Char", "a">>, VInt, VFloat, <<"Bool", TRUE>>,
     <<"Unit">>, <<"Option", <<>>>>, VInclude}

\* What a record or a mapping of the inputs holds as a value.
VFew == {VInt, VStr, VInclude}

VSeqs(S) == {<<"Seq", e>> : e \in SeqsOver(S, MaxLen)}

VTuples(S) == {<<"Tuple", n, e>> : n \in Names, e \in SeqsOver(S, MaxLen)}

VStructs(S) ==
    {<<"Struct", n, f>> :
        n \in Names,
        f \in UNION {Labelled(ns, S) : ns \in DistinctSeqs(FieldNames, MaxLen)}}

\* Keys of the mappings of the inputs: the leaves and a few composite keys.
VKeys ==
    VLeaves \cup
    {<<"Seq", <<>>>>, <<"Tuple", <<>>, <<VInt>>>>,
     <<"Tuple", <<ClassName>>, <<VInt>>>>, <<"Option", <<VInt>>>>,
     <<"Option", <<VStr>>>>}

\* Mappings of at most two entries, the keys different Values.
VMaps ==
    {<<"Map", <<>>>>} \cup
    {<<"Map", <<<<k, v>>>>>> : k \in VKeys, v \in {VStr, VInclude}} \cup
    {<<"Map", <<<<ks[1], VStr>>, <<ks[2], v>>>>>> :
        ks \in {p \in VKeys \X VKeys : p[1] # p[2]},
        v \in {<<"String", "b">>, VInclude}}

Values1 ==
    VLeaves \cup VSeqs(VLeaves) \cup VTuples(VFew) \cup VStructs(VFew) \cup VMaps

\* One more level: a tree of Values1 inside each kind of container, alone
\* or followed by an Include.
Values2 ==
    UNION {{<<"Option", <<x>>>>,
            <<"Seq", <<x>>>>,
            <<"Seq", <<x, VInclude>>>>,
            <<"Tuple", <<>>, <<x>>>>,
            <<"Tuple", <<ClassName>>, <<x>>>>,
            <<"Struct", <<>>, <<<<"a", x>>>>>>,
            <<"Struct", <<ClassName>>, <<<<"a", x>>, <<"b", VInt>>>>>>,
            <<"Map", <<<<x, VStr>>>>>>,
            <<"Map", <<<<VStr, x>>>>>>} : x \in Values1 \ VLeaves}

ParserValues == Values1 \cup Values2

\* Documents: those that parse, and one the parser reports errors for.
Docs ==
    {<<"doc", FALSE, v>> : v \in ParserValues} \cup {<<"doc", TRUE, <<"Unit">>>>}

Files == {<<"missing">>} \cup {<<"file", d>> : d \in Docs}

----------------------------------------------------------------------------
(* Python objects handed to to_string.                                     *)

\* An int that fits i64, one that does not but converts to f64, and one
\* too large for either.
SmallInt == PyInt(1)

WideInt == PyInt(I64Max + 1)

HugeInt == PyInt(F64Max + 1)

File == <<"other", "TextIOWrapper">>

Socket == <<"other", "socket">>

PyLeaves ==
    {PyStr("a"), PyBool(TRUE), SmallInt, WideInt, HugeInt, PyFloat(1), None,
     File, Socket}

PyFew == {SmallInt, PyStr("a"), File}

\* The declared field names of a named tuple class of k fields.
DeclaredNames == <<"a", "b", "c", "d", "e", "f">>

\* Classes of tuple-like objects of k elements: tuple itself; a named
\* tuple class P; a class Q whose single parent is P (not tuple); a class R
\* of two parents; a subclass S of tuple whose _fields is a list; a
\* subclass T of tuple without _fields.
TupleClasses(k) ==
    LET names == SubSeq(DeclaredNames, 1, k)
    IN  {TupleClass,
         NamedTupleClass(ClassName, names),
         <<"Q", <<ClassName>>, <<"tuple", names>>>>,
         <<"R", <<ClassName, "Mixin">>, <<"tuple", names>>>>,
         <<"S", <<"tuple">>, <<"list", names>>>>,
         <<"T", <<"tuple">>, <<>>>>}

PyTuplesOver(S) ==
    UNION {{<<"tuple", c, e>> : c \in TupleClasses(k), e \in [1..k -> S]} :
             k \in 0..MaxLen}

PyDataclassesOver(S) ==
    {<<"dataclass", ClassName, f>> :
        f \in UNION {Labelled(ns, S) : ns \in DistinctSeqs(FieldNames, MaxLen)}}

\* Keys of the dicts of the inputs; a dict holds no two keys that are ==.
PyKeys ==
    {PyStr("a"), PyBool(TRUE), SmallInt, WideInt, PyFloat(1), None, File,
     PyTuple(<<SmallInt>>)}

PyDicts ==
    {PyDict(<<>>)} \cup
    {PyDict(<<<<k, v>>>>) : k \in PyKeys, v \in PyLeaves} \cup
    {PyDict(<<<<ks[1], v1>>, <<ks[2], v2>>>>) :
        ks \in {p \in PyKeys \X PyKeys : ~PyEq(p[1], p[2])},
        v1 \in {SmallInt, File}, v2 \in {PyStr("a"), Socket}}

Objects1 ==
    PyLeaves \cup {PyList(e) : e \in SeqsOver(PyLeaves, MaxLen)} \cup PyDicts
    \cup PyTuplesOver(PyFew) \cup PyDataclassesOver(PyFew)

\* One more level: an object of Objects1 inside each kind of container.
Objects2 ==
    UNION {{PyList(<<x>>),
            PyList(<<x, Socket>>),
            PyDict(<<<<PyStr("a"), x>>>>),
            PyTuple(<<x>>),
            <<"tuple", NamedTupleClass(ClassName, <<"a">>), <<x>>>>,
            <<"dataclass", ClassName, <<<<"a", x>>, <<"_x", SmallInt>>>>>>,
            <<"dataclass", ClassName, <<<<"a", x>>>>>>} :
           x \in Objects1 \ PyLeaves}

PyObjects == Objects1 \cup Objects2

----------------------------------------------------------------------------
(* The specification: one call of an entry point, and a second call that   *)
(* hands the text to_string returned to loads.                             *)

NoCall == <<"none">>

Init ==
    /\ pc = "idle"
    /\ call = NoCall
    /\ result = NoCall
    /\ emitted = FALSE
    /\ origin = <<>>

ToString ==
    /\ pc = "idle"
    /\ \E o \in PyObjects :
         /\ call' = <<"to_string", o>>
         /\ result' = to_string(o)
    /\ pc' = "returned"
    /\ UNCHANGED <<emitted, origin>>

Load ==
    /\ pc = "idle"
    /\ \E file \in Files, ps \in BOOLEAN, pcn \in BOOLEAN, pe \in BOOLEAN :
         LET r == load(file, ps, pcn, pe)
         IN  /\ call' = <<"load", file, ps, pcn, pe>>
             /\ result' = r[1]
             /\ emitted' = r[2]
    /\ pc' = "returned"
    /\ UNCHANGED origin

Loads ==
    /\ pc = "idle"
    /\ \E s \in Docs, ps \in BOOLEAN, pcn \in BOOLEAN, pe \in BOOLEAN :
         LET r == loads(s, ps, pcn, pe)
         IN  /\ call' = <<"loads", s, ps, pcn, pe>>
             /\ result' = r[1]
             /\ emitted' = r[2]
    /\ pc' = "returned"
    /\ UNCHANGED origin

\* loads called with the text a to_string call returned.
LoadsText ==
    /\ pc = "returned"
    /\ call[1] = "to_string"
    /\ IsOk(result)
    /\ \E ps \in BOOLEAN, pcn \in BOOLEAN, pe \in BOOLEAN :
         LET r == loads(result[2], ps, pcn, pe)
         IN  /\ call' = <<"loads", result[2], ps, pcn, pe>>
             /\ result' = r[1]
             /\ emitted' = r[2]
    /\ origin' = <<call[2]>>
    /\ pc' = "returned"

Next == ToString \/ Load \/ Loads \/ LoadsText

Spec == Init /\ [][Next]_vars

----------------------------------------------------------------------------
(* What a state says about the call it records.                            *)

IsDeserialize == call[1] \in {"load", "loads"}

\* The call was given a text (for load: the file exists).
HasText == IsDeserialize /\ (call[1] = "load" => call[2][1] = "file")

\* The document the call parsed.
TheDoc == IF call[1] = "load" THEN call[2][2] ELSE call[2]

PS == call[3]

PCN == call[4]

\* The call reached try_val_to_py: the text parsed, and load's policy
\* check let it through.
Decoding ==
    /\ HasText
    /\ ~TheDoc[2]
    /\ call[1] = "load" => ~(PS /\ PCN)

\* The tree try_val_to_py was called with.
Tree == TheDoc[3]

\* The elements of a decoded tuple, the entries of a decoded dict.
ElemsOf(o) == o[3]

EntriesOf(o) == o[2]

\* decode of every element of a sequence of Values succeeds
AllDecode(vs, ps, pcn) ==
    \A i \in 1..Len(vs) : IsOk(try_val_to_py(vs[i], ps, pcn))

----------------------------------------------------------------------------
(* C1: load and loads, called with preserve_structs and                    *)
(* preserve_class_names both true, fail with ConflictingPolicy whatever    *)
(* the text is, and return no object.                                      *)
C1_BothFlagsRejected ==
    (HasText /\ PS /\ PCN) => result = ConflictingPolicy

----------------------------------------------------------------------------
(* C9: with preserve_structs alone, a named Tuple(Some(N), elems) whose    *)
(* elements all decode is decoded to an instance of a record type named N  *)
(* holding the k decoded elements in order.                                *)
C9_NamedTupleSynthesized ==
    (/\ Decoding /\ PS /\ ~PCN
     /\ Tree[1] = "Tuple" /\ Tree[2] # <<>>
     /\ AllDecode(Tree[3], TRUE, FALSE))
    => /\ IsOk(result)
       /\ Kind(result[2]) = "tuple"
       /\ TypeName(result[2]) = Tree[2][1]
       /\ ElemsOf(result[2]) =
            [i \in 1..Len(Tree[3]) |-> try_val_to_py(Tree[3][i], TRUE, FALSE)[2]]

----------------------------------------------------------------------------
(* C10: decoding a Map of n entries (keys pairwise different Values)       *)
(* either fails or returns a mapping of exactly n entries, each decoded    *)
(* key mapped to its own decoded value.                                    *)
C10_MapEntriesKept ==
    (Decoding /\ Tree[1] = "Map")
    => \/ IsErr(result)
       \/ /\ Kind(result[2]) = "dict"
          /\ Len(EntriesOf(result[2])) = Len(Tree[2])
          /\ \A i \in 1..Len(Tree[2]) :
                \E j \in 1..Len(EntriesOf(result[2])) :
                    EntriesOf(result[2])[j] =
                        <<try_val_to_py(Tree[2][i][1], PS, PCN)[2],
                          try_val_to_py(Tree[2][i][2], PS, PCN)[2]>>

----------------------------------------------------------------------------
(* C8: a tuple-like object is encoded as a named Struct only when its type *)
(* has exactly one parent, that parent is tuple, and its _fields is a      *)
(* tuple; otherwise it is encoded as a plain Tuple of its elements.        *)
IsEncodedAs(tag) == IsOk(result) /\ result[2][3][1] = tag

C8_NamedRecordDetection ==
    (call[1] = "to_string" /\ Kind(call[2]) = "tuple" /\ IsOk(result))
    => LET cls == call[2][2]
           named == /\ Len(cls[2]) = 1
                    /\ cls[2][1] = "tuple"
                    /\ cls[3] # <<>>
                    /\ cls[3][1] = "tuple"
       IN  IF named THEN IsEncodedAs("Struct") ELSE IsEncodedAs("Tuple")

----------------------------------------------------------------------------
(* C2: for an object graph x of mappings, lists, strings, booleans,        *)
(* integers, floats and None, to_string succeeds and decoding its text     *)
(* with neither flag gives an object structurally equal to x, every scalar *)
(* of the same kind and value.                                             *)
RECURSIVE IsPlain(_)

IsPlain(o) ==
    CASE Kind(o) \in {"str", "bool", "int", "float", "None"} -> TRUE
      [] Kind(o) = "list" -> \A i \in 1..Len(o[2]) : IsPlain(o[2][i])
      [] Kind(o) = "dict" ->
           \A i \in 1..Len(o[2]) : IsPlain(o[2][i][1]) /\ IsPlain(o[2][i][2])
      [] OTHER -> FALSE

RECURSIVE SameObject(_, _)

\* Structural equality: kinds and values agree, lists element by element,
\* dicts entry by entry in any order.
SameObject(a, b) ==
    IF Kind(a) # Kind(b) THEN FALSE
    ELSE IF Kind(a) = "list" THEN
        /\ Len(a[2]) = Len(b[2])
        /\ \A i \in 1..Len(a[2]) : SameObject(a[2][i], b[2][i])
    ELSE IF Kind(a) = "dict" THEN
        /\ Len(a[2]) = Len(b[2])
        /\ \A i \in 1..Len(a[2]) :
              \E j \in 1..Len(b[2]) :
                  /\ SameObject(a[2][i][1], b[2][j][1])
                  /\ SameObject(a[2][i][2], b[2][j][2])
    ELSE a = b

\* The state follows loads called with the text of to_string(origin).
Reloaded == call[1] = "loads" /\ origin # <<>>

C2_PlainRoundTrip ==
    /\ (call[1] = "to_string" /\ IsPlain(call[2])) => IsOk(result)
    /\ (Reloaded /\ ~PS /\ ~PCN /\ IsPlain(origin[1]))
       => IsOk(result) /\ SameObject(result[2], origin[1])

\* The part of C2 the code does satisfy: the same, for graphs whose
\* integers all fit the 64-bit Integer of the Value model.
RECURSIVE IntsFit(_)

IntsFit(o) ==
    CASE Kind(o) = "int" -> FitsI64(o)
      [] Kind(o) = "list" -> \A i \in 1..Len(o[2]) : IntsFit(o[2][i])
      [] Kind(o) = "dict" ->
           \A i \in 1..Len(o[2]) : IntsFit(o[2][i][1]) /\ IntsFit(o[2][i][2])
      [] OTHER -> TRUE

C2_RoundTripWithinI64 ==
    /\ (call[1] = "to_string" /\ IsPlain(call[2]) /\ IntsFit(call[2]))
       => IsOk(result)
    /\ (Reloaded /\ ~PS /\ ~PCN /\ IsPlain(origin[1]) /\ IntsFit(origin[1]))
       => IsOk(result) /\ SameObject(result[2], origin[1])

----------------------------------------------------------------------------
(* C4: a named record (a named tuple instance or a dataclass instance,     *)
(* name N, declared fields f1..fk, encodable values) is encoded as         *)
(* Struct(Some(N), fields in declared order), and decoding that with       *)
(* preserve_structs alone gives a record of type name N whose fields are   *)
(* f1..fk in order and whose values are the decoded field values.          *)
IsNamedRecord(o) ==
    \/ Kind(o) = "dataclass"
    \/ /\ Kind(o) = "tuple"
       /\ o[2][2] = <<"tuple">>
       /\ o[2][3] # <<>>
       /\ o[2][3][1] = "tuple"

\* The declared fields of a named record, with their values.
DeclaredFields(o) == IF Kind(o) = "dataclass" THEN o[3] ELSE AsDict(o)

\* A named record all of whose field values the encoder accepts.
IsEncodableRecord(o) ==
    /\ IsNamedRecord(o)
    /\ \A i \in 1..Len(DeclaredFields(o)) : IsOk(extract(DeclaredFields(o)[i][2]))

\* What decoding the encoded form of a field value gives.
Redecoded(x) == try_val_to_py(Reparse(extract(x)[2]), TRUE, FALSE)

C4_NamedRecordFidelity ==
    /\ (call[1] = "to_string" /\ IsEncodableRecord(call[2]))
       => LET f == DeclaredFields(call[2])
          IN  /\ IsOk(result)
              /\ result[2][3][1] = "Struct"
              /\ result[2][3][2] = <<TypeName(call[2])>>
              /\ Len(result[2][3][3]) = Len(f)
              /\ \A i \in 1..Len(f) : result[2][3][3][i][1] = f[i][1]
    /\ (Reloaded /\ PS /\ ~PCN /\ IsEncodableRecord(origin[1]))
       => LET f == DeclaredFields(origin[1])
          IN  /\ IsOk(result)
              /\ Kind(result[2]) = "tuple"
              /\ result[2][2] =
                   NamedTupleClass(TypeName(origin[1]),
                                   [i \in 1..Len(f) |-> f[i][1]])
              /\ Len(ElemsOf(result[2])) = Len(f)
              /\ \A i \in 1..Len(f) :
                    Ok(ElemsOf(result[2])[i]) = Redecoded(f[i][2])

----------------------------------------------------------------------------
(* Walks over a Value tree and over an object graph, in the order the      *)
(* decoder and the encoder visit them.                                     *)

RECURSIVE Flatten(_)

Flatten(seqs) == IF seqs = <<>> THEN <<>> ELSE Head(seqs) \o Flatten(Tail(seqs))

\* The Values directly under a Value.
SubValues(v) ==
    CASE v[1] = "Struct" -> [i \in 1..Len(v[3]) |-> v[3][i][2]]
      [] v[1] = "Tuple" -> v[3]
      [] v[1] = "Seq" -> v[2]
      [] v[1] = "Map" -> Flatten([i \in 1..Len(v[2]) |-> v[2][i]])
      [] v[1] = "Option" -> v[2]
      [] OTHER -> <<>>

RECURSIVE ContainsInclude(_)

\* Some node of the tree, at any depth, is an Include.
ContainsInclude(v) ==
    \/ v[1] = "Include"
    \/ \E i \in 1..Len(SubValues(v)) : ContainsInclude(SubValues(v)[i])

RECURSIVE ContainsMap(_)

ContainsMap(v) ==
    \/ v[1] = "Map"
    \/ \E i \in 1..Len(SubValues(v)) : ContainsMap(SubValues(v)[i])

RECURSIVE ContainsNamed(_)

\* Some node of the tree is a Struct or a Tuple that has a name.
ContainsNamed(v) ==
    \/ v[1] \in {"Struct", "Tuple"} /\ v[2] # <<>>
    \/ \E i \in 1..Len(SubValues(v)) : ContainsNamed(SubValues(v)[i])

\* The objects directly under an object: a dict's key before its value.
SubObjects(o) ==
    CASE Kind(o) = "dict" -> Flatten([i \in 1..Len(o[2]) |-> o[2][i]])
      [] Kind(o) = "list" -> o[2]
      [] Kind(o) = "tuple" -> o[3]
      [] Kind(o) = "dataclass" -> [i \in 1..Len(o[3]) |-> o[3][i][2]]
      [] OTHER -> <<>>

RECURSIVE Visited(_)

\* Every object of a graph in the encoder's traversal order.
Visited(o) ==
    <<o>> \o Flatten([i \in 1..Len(SubObjects(o)) |-> Visited(SubObjects(o)[i])])

\* An object of none of the recognised kinds: no probe of the encoder
\* accepts it (an int too large for i64 and for f64 is one).
IsUnrecognised(o) ==
    \/ Kind(o) = "other"
    \/ Kind(o) = "int" /\ ~FitsI64(o) /\ ~FitsF64(o)

Unrecognised(o) ==
    SelectSeq(Visited(o), LAMBDA x : IsUnrecognised(x))

----------------------------------------------------------------------------
(* C3 as stated: a Value tree that contains an Include, at any depth and   *)
(* in any position, fails to decode with UnresolvedInclude, under every    *)
(* combination of the flags.                                               *)
C3_IncludeAlwaysUnresolved ==
    (Decoding /\ ContainsInclude(Tree)) => result = UnresolvedInclude(IncludePath)

(* C3 as amended: such a tree always fails to decode and no object is      *)
(* returned; the error is UnresolvedInclude, or the error of a node that   *)
(* is decoded before the Include: UnhashableKey from a Map, or the host's  *)
(* refusal of a field name for a named Struct or Tuple under               *)
(* preserve_structs.                                                       *)
C3_IncludeNeverDecoded ==
    (Decoding /\ ContainsInclude(Tree))
    => /\ IsErr(result)
       /\ \/ result = UnresolvedInclude(IncludePath)
          \/ result[2] = "UnhashableKey" /\ ContainsMap(Tree)
          \/ result[2] = "InvalidFieldName" /\ PS /\ ContainsNamed(Tree)
       /\ (~ContainsMap(Tree) /\ ~(PS /\ ContainsNamed(Tree)))
          => result = UnresolvedInclude(IncludePath)

\* An Include two levels down, as a Map key, reported as unresolved.
C3_Witness ==
    /\ Decoding
    /\ Tree[1] = "Seq"
    /\ Len(Tree[2]) = 1
    /\ Tree[2][1][1] = "Map"
    /\ Len(Tree[2][1][2]) = 2
    /\ Tree[2][1][2][2][1] = VInclude
    /\ result = UnresolvedInclude(IncludePath)

----------------------------------------------------------------------------
(* C5: with preserve_class_names alone, a named Struct whose field values  *)
(* decode is decoded to a plain mapping of exactly its field names and     *)
(* "!__name__", each field mapped to its decoded value and "!__name__" to  *)
(* the name; a named Tuple of k elements to a plain mapping of exactly     *)
(* _0 .. _(k-1) and "!__name__".                                           *)
PositionKeys == <<"_0", "_1", "_2", "_3", "_4", "_5">>

\* The entries a dict must hold, and no others: one per label, in any order.
HoldsExactly(dict, expected) ==
    /\ Kind(dict) = "dict"
    /\ Len(EntriesOf(dict)) = Len(expected)
    /\ \A i \in 1..Len(expected) :
          \E j \in 1..Len(EntriesOf(dict)) : EntriesOf(dict)[j] = expected[i]

C5_SentinelFlattening ==
    /\ (/\ Decoding /\ PCN /\ ~PS
        /\ Tree[1] = "Struct" /\ Tree[2] # <<>>
        /\ AllDecode(SubValues(Tree), FALSE, TRUE))
       => /\ IsOk(result)
          /\ HoldsExactly(result[2],
                [i \in 1..Len(Tree[3]) |->
                    <<PyStr(Tree[3][i][1]),
                      try_val_to_py(Tree[3][i][2], FALSE, TRUE)[2]>>]
                \o <<<<PyStr("!__name__"), PyStr(Tree[2][1])>>>>)
    /\ (/\ Decoding /\ PCN /\ ~PS
        /\ Tree[1] = "Tuple" /\ Tree[2] # <<>>
        /\ AllDecode(SubValues(Tree), FALSE, TRUE))
       => /\ IsOk(result)
          /\ HoldsExactly(result[2],
                [i \in 1..Len(Tree[3]) |->
                    <<PyStr(PositionKeys[i]),
                      try_val_to_py(Tree[3][i], FALSE, TRUE)[2]>>]
                \o <<<<PyStr("!__name__"), PyStr(Tree[2][1])>>>>)

\* A named Struct of two fields, one of them a named Tuple, flattened.
C5_Witness ==
    /\ Decoding /\ PCN /\ ~PS
    /\ Tree[1] = "Struct" /\ Tree[2] # <<>>
    /\ Len(Tree[3]) = 2
    /\ Tree[3][1][2][1] = "Tuple" /\ Tree[3][1][2][2] # <<>>
    /\ Len(Tree[3][1][2][3]) = 2
    /\ IsOk(result)
    /\ Len(EntriesOf(result[2])) = 3

----------------------------------------------------------------------------
(* C6: with neither flag, decoding leaves no trace of names: a named       *)
(* Struct becomes a plain mapping of exactly its field names, at every     *)
(* depth, and the result is the result of decoding the tree with every     *)
(* name removed.                                                           *)
RECURSIVE StripNames(_)

StripNames(v) ==
    CASE v[1] = "Struct" ->
           <<"Struct", <<>>, [i \in 1..Len(v[3]) |->
                               <<v[3][i][1], StripNames(v[3][i][2])>>]>>
      [] v[1] = "Tuple" ->
           <<"Tuple", <<>>, [i \in 1..Len(v[3]) |-> StripNames(v[3][i])]>>
      [] v[1] = "Seq" -> <<"Seq", [i \in 1..Len(v[2]) |-> StripNames(v[2][i])]>>
      [] v[1] = "Map" ->
           <<"Map", [i \in 1..Len(v[2]) |->
                       <<StripNames(v[2][i][1]), StripNames(v[2][i][2])>>]>>
      [] v[1] = "Option" ->
           <<"Option", [i \in 1..Len(v[2]) |-> StripNames(v[2][i])]>>
      [] OTHER -> v

\* No object of the graph is a record of a synthesized type or a mapping
\* with the sentinel key.
NoNameTrace(o) ==
    \A i \in 1..Len(Visited(o)) :
        LET x == Visited(o)[i]
        IN  /\ Kind(x) = "tuple" => x[2] = TupleClass
            /\ Kind(x) = "dict" =>
                 \A j \in 1..Len(x[2]) : x[2][j][1] # PyStr("!__name__")

C6_DefaultDiscardsNames ==
    (Decoding /\ ~PS /\ ~PCN)
    => /\ result = try_val_to_py(StripNames(Tree), FALSE, FALSE)
       /\ IsOk(result) => NoNameTrace(result[2])
       /\ (IsOk(result) /\ Tree[1] = "Struct")
          => /\ Kind(result[2]) = "dict"
             /\ [i \in 1..Len(EntriesOf(result[2])) |->
                    EntriesOf(result[2])[i][1]]
                = [i \in 1..Len(Tree[3]) |-> PyStr(Tree[3][i][1])]

\* A named Struct holding a named Struct, decoded with neither flag.
C6_Witness ==
    /\ Decoding /\ ~PS /\ ~PCN
    /\ Tree[1] = "Struct" /\ Tree[2] # <<>>
    /\ Len(Tree[3]) = 2
    /\ Tree[3][1][2][1] = "Struct" /\ Tree[3][1][2][2] # <<>>
    /\ Len(Tree[3][1][2][3]) = 2
    /\ IsOk(result)

----------------------------------------------------------------------------
(* C7: when the encoder's traversal reaches an object of none of the       *)
(* recognised kinds, to_string fails with UnsupportedType carrying the     *)
(* type name of the first such object in traversal order, and returns no   *)
(* text.                                                                   *)
C7_UnsupportedTypeRejected ==
    (call[1] = "to_string" /\ Unrecognised(call[2]) # <<>>)
    => result = UnsupportedType(TypeName(Unrecognised(call[2])[1]))

\* Two unrecognised objects of different types, the first one nested: the
\* error names the nested one.
C7_Witness ==
    /\ call[1] = "to_string"
    /\ Kind(call[2]) = "list"
    /\ Len(call[2][2]) = 2
    /\ Kind(call[2][2][1]) = "dict"
    /\ Len(Unrecognised(call[2])) = 2
    /\ call[2][2][2] = Socket
    /\ result = UnsupportedType("TextIOWrapper")

====
